---- MODULE Spec2Model ----
(***************************************************************************)
(* Model of byzantine_gui.py: the OM(F) oral-messages demo.  The state is  *)
(* the simulation state of ByzantineGUI (node list, message list, round    *)
(* counter, phase, faulty counter, the Tk variables the handlers read) and *)
(* there is one action per handler.  Python lists are sequences, the       *)
(* insertion-ordered dict message_log is a sequence of <<key, value>>      *)
(* pairs, and the node list is indexed from 0 like the Python list.  The   *)
(* canvas, the labels and the button states are written by the handlers    *)
(* and read by none of the simulation logic; they are left out.            *)
(***************************************************************************)
EXTENDS Integers, Sequences, FiniteSets, TLC

\* Largest N the user types into the N entry (the entry itself is unbounded).
MaxN == 8

\* Longest list handed to get_majority on its own.
MaxLen == 4

\* The values offered by the F combobox (readonly).
FValues == {1, 2}

\* The two radio-button values.
Values == {"Attack", "Retreat"}

\* Python's None (an absent log entry, an unset final_decision).
None == "None"

\* The '-' separator of a path string, one token of the key.
Dash == -1

\* self.sender_id, set once in __init__ and never reassigned.
sender_id == 0

\* A click that lands on no node's disc.
NoHit == -1

VARIABLES
    nodes,             \* self.nodes: 0-indexed list of Node records
    messages,          \* self.messages: list of Message records
    max_faulty,        \* self.max_faulty
    total_nodes,       \* self.total_nodes
    current_faulty,    \* self.current_faulty
    current_round,     \* self.current_round
    simulation_state,  \* self.simulation_state
    sender_value,      \* self.sender_value
    f_var,             \* self.f_var (combobox)
    n_var,             \* self.n_var (entry text)
    sender_value_var,  \* self.sender_value_var (radio buttons)
    last_call          \* the call that ran last and how it ended

vars == <<nodes, messages, max_faulty, total_nodes, current_faulty,
          current_round, simulation_state, sender_value, f_var, n_var,
          sender_value_var, last_call>>

-----------------------------------------------------------------------------
(* Entry text *)

\* The text str(n) typed into (or set on) the N entry.
NText(n) == [numeric |-> TRUE, value |-> n]

\* A text int() cannot parse (raises ValueError).
NotANumber == [numeric |-> FALSE, value |-> 0]

\* What the user can type into the N entry.
NTexts == {NText(n) : n \in 3..MaxN} \cup {NotANumber}

-----------------------------------------------------------------------------
(* Lists *)

\* The ids 0..n-1 of a 0-indexed list, in list order.
Indices(list) == [k \in 1..Cardinality(DOMAIN list) |-> k - 1]

\* x in list (a 1-indexed sequence)
InSeq(x, s) == \E k \in 1..Len(s) : s[k] = x

RECURSIVE Flatten(_)
\* Concatenation of a sequence of sequences (nested for loops appending).
Flatten(ss) == IF ss = <<>> THEN <<>> ELSE Head(ss) \o Flatten(Tail(ss))

-----------------------------------------------------------------------------
(* Path strings: '-'.join(map(str, path)) and its inverse *)

\* '-'.join(map(str, path)): the ids with a Dash between neighbours.
PathStr(path) ==
    [k \in 1..(2 * Len(path) - 1) |->
        IF k % 2 = 1 THEN path[(k + 1) \div 2] ELSE Dash]

RECURSIVE Split(_, _)
\* path_str.split('-'): cur is the piece being read.
Split(str, cur) ==
    IF str = <<>> THEN <<cur>>
    ELSE IF Head(str) = Dash THEN <<cur>> \o Split(Tail(str), <<>>)
    ELSE Split(Tail(str), Append(cur, Head(str)))

\* list(map(int, path_str.split('-'))); int() of a piece is its one token.
ParsePath(str) ==
    LET pieces == Split(str, <<>>)
    IN  [k \in 1..Len(pieces) |-> pieces[k][1]]

-----------------------------------------------------------------------------
(* dict: message_log as an insertion-ordered sequence of <<key, value>> *)

DictHas(d, key) == \E k \in 1..Len(d) : d[k][1] = key

\* d.get(key)
DictGet(d, key) ==
    IF DictHas(d, key)
    THEN d[CHOOSE k \in 1..Len(d) : d[k][1] = key][2]
    ELSE None

-----------------------------------------------------------------------------
(* Node *)

\* Node.__init__ (x, y and radius serve drawing and hit-testing only)
NewNode(node_id) ==
    [id |-> node_id, is_sender |-> FALSE, is_faulty |-> FALSE,
     message_log |-> <<>>, final_decision |-> None]

\* Node.get_faulty_value, with the faulty flag read from the wrong side.
GetFaultyValueInverted(node, original_value, target_node_id) ==
    IF node.is_faulty THEN original_value
    ELSE IF target_node_id % 2 = 0 THEN "Attack" ELSE "Retreat"

\* Node.get_faulty_value
GetFaultyValue(node, original_value, target_node_id) ==
    IF ~node.is_faulty THEN original_value
    ELSE IF target_node_id % 2 = 0 THEN "Attack" ELSE "Retreat"

\* Number of entries of values equal to v.
Count(values, v) == Cardinality({k \in 1..Len(values) : values[k] = v})

\* get_majority comparing with the whole length instead of half of it.
GetMajorityNoHalf(values) ==
    IF Count(values, "Attack") > Len(values) THEN "Attack" ELSE "Retreat"

\* get_majority with the None entries left out of the length.
GetMajorityOfPresent(values) ==
    IF 2 * Count(values, "Attack")
         > Count(values, "Attack") + Count(values, "Retreat")
    THEN "Attack" ELSE "Retreat"

\* get_majority: counts['Attack'] > len(values) / 2, else 'Retreat'
GetMajority(values) ==
    IF 2 * Count(values, "Attack") > Len(values) THEN "Attack" ELSE "Retreat"

\* Node.resolve_decision taking the base case at every depth.
ResolveDecisionDirect(ns, self, path, f) ==
    DictGet(ns[self].message_log, PathStr(path))

RECURSIVE ResolveDecision(_, _, _, _)
\* Node.resolve_decision; ns is app.nodes, self the index of the node.
ResolveDecision(ns, self, path, f) ==
    LET log == ns[self].message_log
        v == DictGet(log, PathStr(path))
        children ==
            SelectSeq(Indices(ns),
                LAMBDA k : /\ ns[k].id # ns[self].id
                           /\ ~InSeq(ns[k].id, path)
                           /\ DictHas(log, PathStr(Append(path, ns[k].id))))
        values ==
            <<v>> \o [c \in 1..Len(children) |->
                        ResolveDecision(ns, self,
                                        Append(path, ns[children[c]].id), f - 1)]
    IN  IF f = 0 THEN v ELSE GetMajority(values)

RECURSIVE LogReads(_, _, _, _)
\* The keys Node.resolve_decision looks up with message_log.get: that of
\* path, and those of the calls it recurses into.
LogReads(ns, self, path, f) ==
    LET log == ns[self].message_log
        children ==
            SelectSeq(Indices(ns),
                LAMBDA k : /\ ns[k].id # ns[self].id
                           /\ ~InSeq(ns[k].id, path)
                           /\ DictHas(log, PathStr(Append(path, ns[k].id))))
    IN  {PathStr(path)} \cup
        (IF f = 0 THEN {}
         ELSE UNION {LogReads(ns, self, Append(path, ns[children[c]].id), f - 1) :
                        c \in 1..Len(children)})

\* Node.run_decision: the node after deciding.
RunDecision(ns, self, F, sender_node_id) ==
    [ns[self] EXCEPT
        !.final_decision = ResolveDecision(ns, self, <<sender_node_id>>, F)]

-----------------------------------------------------------------------------
(* Message and the round engine *)

\* Message.__init__, with the two nodes named by their list index.
Message(from_node, to_node, value, path) ==
    [from_node |-> from_node, to_node |-> to_node, value |-> value, path |-> path]

\* Round 1 of run_next_round: the sender sends to every other node.
Round1Messages(ns, value) ==
    LET sender == ns[sender_id]
        path == <<sender.id>>
        receivers == SelectSeq(Indices(ns), LAMBDA k : ns[k].id # sender.id)
    IN  [r \in 1..Len(receivers) |->
            Message(sender_id, receivers[r],
                    GetFaultyValue(sender, value, ns[receivers[r]].id), path)]

\* The relay loop's receiver test, without the test on the path.
MayReceiveAnyPath(receiver_node, sender_node, path) ==
    receiver_node.id # sender_node.id

\* The relay loop's receiver test.
MayReceive(receiver_node, sender_node, path) ==
    receiver_node.id # sender_node.id /\ ~InSeq(receiver_node.id, path)

\* The relay test passing the entries of every earlier round.
FromAnEarlierRound(path, round) == Len(path) <= round - 1

\* len(path) == self.current_round - 1: the entry was received in the
\* previous round.
FromPreviousRound(path, round) == Len(path) = round - 1

\* What sender_node relays of one log entry <<path_str, value>> in round.
RelayEntry(ns, s, entry, round) ==
    LET path == ParsePath(entry[1])
        receivers ==
            SelectSeq(Indices(ns), LAMBDA k : MayReceive(ns[k], ns[s], path))
    IN  IF FromPreviousRound(path, round)
        THEN [r \in 1..Len(receivers) |->
                Message(s, receivers[r],
                        GetFaultyValue(ns[s], entry[2], ns[receivers[r]].id),
                        Append(path, ns[s].id))]
        ELSE <<>>

\* Rounds 2 to F+1 of run_next_round: every node relays what it received in
\* the previous round.
RelayMessages(ns, round) ==
    Flatten([k \in 1..Cardinality(DOMAIN ns) |->
        Flatten([e \in 1..Len(ns[k - 1].message_log) |->
            RelayEntry(ns, k - 1, ns[k - 1].message_log[e], round)])])

\* The dict log after log[keys[m]] = msgs[m].value for m = 1, 2, ... in
\* order: a key already in the dict keeps its place and takes the last value
\* written to it; a new key is appended where it is first written.
Logged(log, msgs, keys) ==
    LET LastValue(key) ==
            LET writes == {m \in 1..Len(msgs) : keys[m] = key}
            IN  msgs[CHOOSE m \in writes : \A m2 \in writes : m2 <= m].value
        kept == [e \in 1..Len(log) |->
                    IF InSeq(log[e][1], keys)
                    THEN <<log[e][1], LastValue(log[e][1])>>
                    ELSE log[e]]
        firsts == SelectSeq([m \in 1..Len(msgs) |-> m],
                    LAMBDA m : /\ ~DictHas(log, keys[m])
                               /\ \A m2 \in 1..(m - 1) : keys[m2] # keys[m])
        added == [a \in 1..Len(firsts) |->
                    <<keys[firsts[a]], LastValue(keys[firsts[a]])>>]
    IN  kept \o added

\* deliver_messages starting every round from an empty log.
DeliverToEmptied(log, msgs) ==
    Logged(<<>>, msgs, [m \in 1..Len(msgs) |-> PathStr(msgs[m].path)])

\* deliver_messages, for the messages of one receiver, in list order.
DeliverTo(log, msgs) ==
    Logged(log, msgs, [m \in 1..Len(msgs) |-> PathStr(msgs[m].path)])

\* deliver_messages: the node list after every message is logged.
DeliverMessages(ns, msgs) ==
    [i \in DOMAIN ns |->
        [ns[i] EXCEPT !.message_log =
            DeliverTo(@, SelectSeq(msgs, LAMBDA m : m.to_node = i))]]

\* The decision loop passing over the sender.
DecideLieutenantsOnly(ns, F) ==
    [i \in DOMAIN ns |->
        IF ~ns[i].is_faulty /\ ~ns[i].is_sender
        THEN RunDecision(ns, i, F, sender_id) ELSE ns[i]]

\* The decision loop deciding for every node, faulty or not.
DecideAllEvenFaulty(ns, F) ==
    [i \in DOMAIN ns |-> RunDecision(ns, i, F, sender_id)]

\* The decision loop at the end of run_next_round.
DecideAll(ns, F) ==
    [i \in DOMAIN ns |->
        IF ~ns[i].is_faulty THEN RunDecision(ns, i, F, sender_id) ELSE ns[i]]

\* The end-of-simulation test compared with >= instead of >.
RoundsOverEarly(round, F) == round >= F

\* run_next_round's "simulation is over" test.
RoundsOver(round, F) == round > F

-----------------------------------------------------------------------------
(* setup_simulation *)

\* The validation accepting one node fewer.
MinNOffByOne(f) == 3 * f

\* min_n of on_f_changed and setup_simulation
MinN(f) == 3 * f + 1

\* The list range(total_nodes) of new nodes, node sender_id marked sender.
FreshNodes(n) ==
    [i \in 0..(n - 1) |->
        IF i = sender_id THEN [NewNode(i) EXCEPT !.is_sender = TRUE]
        ELSE NewNode(i)]

\* self.nodes = []
NoNodes == FreshNodes(0)

\* int(self.n_var.get()) raises ValueError, or n_input < min_n
Rejected(text, f) == ~text.numeric \/ text.value < MinN(f)

\* A rejection that returns without touching the node and message lists.
RejectSetupKeepingLists(op) ==
    /\ last_call' = [op |-> op, result |-> "rejected"]
    /\ UNCHANGED <<nodes, messages, total_nodes, current_faulty,
                   current_round, simulation_state, sender_value>>

\* The two rejecting branches of setup_simulation: the lists are emptied
\* and the handler returns.
RejectSetup(op) ==
    /\ nodes' = NoNodes
    /\ messages' = <<>>
    /\ last_call' = [op |-> op, result |-> "rejected"]
    /\ UNCHANGED <<total_nodes, current_faulty, current_round,
                   simulation_state, sender_value>>

\* The body of setup_simulation reading f from the combobox, text from the
\* entry and v from the radio buttons; op names the handler that runs it.
Setup(f, text, v, op) ==
    /\ max_faulty' = f
    /\ IF Rejected(text, f)
       THEN RejectSetup(op)
       ELSE /\ total_nodes' = text.value
            /\ sender_value' = v
            /\ nodes' = FreshNodes(text.value)
            /\ messages' = <<>>
            /\ current_round' = 0
            /\ current_faulty' = 0
            /\ simulation_state' = "ready"
            /\ last_call' = [op |-> op, result |-> "done"]

\* The "Setup / Reset" button, pressed with text in the N entry and the
\* radio button v selected.
SetupSimulation(text, v) ==
    /\ n_var' = text
    /\ sender_value_var' = v
    /\ Setup(f_var, text, v, "setup_simulation")
    /\ UNCHANGED f_var

\* The F combobox: the user selects f, the N entry is set to the minimum.
OnFChanged(f) ==
    /\ f_var' = f
    /\ n_var' = NText(MinN(f))
    /\ Setup(f, NText(MinN(f)), sender_value_var, "on_f_changed")
    /\ UNCHANGED sender_value_var

-----------------------------------------------------------------------------
(* run_next_round *)

\* The guard of run_next_round without its test for 'finished' (and so
\* without the "not running" test that subsumes it).
ReturnsOnlyBeforeSetup(st) == st \notin {"ready", "running", "finished"}

\* run_next_round returns at once: the state is 'finished' or is not
\* 'running', and it is not 'ready'.
Returns(st) == (st = "finished" \/ st # "running") /\ st # "ready"

\* The "Next Round" button.
RunNextRound ==
    LET state1 == IF simulation_state = "ready" THEN "running"
                  ELSE simulation_state
        round == current_round + 1
        msgs == IF round = 1 THEN Round1Messages(nodes, sender_value)
                ELSE IF round <= max_faulty + 1 THEN RelayMessages(nodes, round)
                ELSE <<>>
        delivered == DeliverMessages(nodes, msgs)
        over == RoundsOver(round, max_faulty)
        state2 == IF over THEN "finished" ELSE state1
    IN  IF Returns(simulation_state)
        THEN \* return
             /\ last_call' = [op |-> "run_next_round", result |-> "returned"]
             /\ UNCHANGED <<nodes, messages, max_faulty, total_nodes,
                            current_faulty, current_round, simulation_state,
                            sender_value, f_var, n_var, sender_value_var>>
        ELSE IF round = 1 /\ sender_id \notin DOMAIN nodes
        THEN \* self.nodes[self.sender_id] raises IndexError
             /\ simulation_state' = state1
             /\ current_round' = round
             /\ messages' = <<>>
             /\ last_call' = [op |-> "run_next_round", result |-> "IndexError"]
             /\ UNCHANGED <<nodes, max_faulty, total_nodes, current_faulty,
                            sender_value, f_var, n_var, sender_value_var>>
        ELSE /\ current_round' = round
             /\ messages' = msgs
             /\ simulation_state' = state2
             /\ nodes' = IF over THEN DecideAll(delivered, max_faulty)
                         ELSE delivered
             /\ last_call' = [op |-> "run_next_round", result |-> "done"]
             /\ UNCHANGED <<max_faulty, total_nodes, current_faulty,
                            sender_value, f_var, n_var, sender_value_var>>

-----------------------------------------------------------------------------
(* on_canvas_click *)

\* The phase test letting clicks through while the rounds are running.
NotClickableOnlyWhenFinished(st) == st = "finished"

\* self.simulation_state != 'ready': the click is ignored.
NotClickable(st) == st # "ready"

\* The quota test letting one flag more than max_faulty be set.
BelowMaxFaultyInclusive(faulty, F) == faulty <= F

\* self.current_faulty < self.max_faulty: a faulty flag may still be set.
BelowMaxFaulty(faulty, F) == faulty < F

\* A click whose point lies in the disc of node hit (the first such node in
\* list order), or in no disc when hit = NoHit.
OnCanvasClick(hit) ==
    IF NotClickable(simulation_state) \/ hit = NoHit \/ nodes[hit].is_sender
    THEN \* return, or the loop finds no node
         /\ last_call' = [op |-> "on_canvas_click", result |-> "returned"]
         /\ UNCHANGED <<nodes, messages, max_faulty, total_nodes,
                        current_faulty, current_round, simulation_state,
                        sender_value, f_var, n_var, sender_value_var>>
    ELSE /\ IF nodes[hit].is_faulty
            THEN /\ nodes' = [nodes EXCEPT ![hit].is_faulty = FALSE]
                 /\ current_faulty' = current_faulty - 1
            ELSE IF BelowMaxFaulty(current_faulty, max_faulty)
            THEN /\ nodes' = [nodes EXCEPT ![hit].is_faulty = TRUE]
                 /\ current_faulty' = current_faulty + 1
            ELSE UNCHANGED <<nodes, current_faulty>>
         /\ last_call' = [op |-> "on_canvas_click", result |-> "done"]
         /\ UNCHANGED <<messages, max_faulty, total_nodes, current_round,
                        simulation_state, sender_value, f_var, n_var,
                        sender_value_var>>

-----------------------------------------------------------------------------
(* The program *)

\* ByzantineGUI.__init__: the fields, then on_f_changed() with F = 1.
Init ==
    /\ nodes = FreshNodes(4)
    /\ messages = <<>>
    /\ max_faulty = 1
    /\ total_nodes = 4
    /\ current_faulty = 0
    /\ current_round = 0
    /\ simulation_state = "ready"
    /\ sender_value = "Attack"
    /\ f_var = 1
    /\ n_var = NText(4)
    /\ sender_value_var = "Attack"
    /\ last_call = [op |-> "on_f_changed", result |-> "done"]

Next ==
    \/ \E text \in NTexts, v \in Values : SetupSimulation(text, v)
    \/ \E f \in FValues : OnFChanged(f)
    \/ RunNextRound
    \/ \E hit \in DOMAIN nodes \cup {NoHit} : OnCanvasClick(hit)

Spec == Init /\ [][Next]_vars

-----------------------------------------------------------------------------
(* The round engine started from any ready configuration *)

\* The node list of a ready simulation of n nodes whose faulty flags are
\* set for the ids in faulty.
NodesWithFaulty(n, faulty) ==
    [i \in 0..(n - 1) |-> [FreshNodes(n)[i] EXCEPT !.is_faulty = i \in faulty]]

\* Every ready configuration with at most f faulty flags set, the sender's
\* included (on_canvas_click never sets the sender's flag; Node.is_faulty
\* is set here directly).
InitOM ==
    \E f \in FValues : \E n \in MinN(f)..MaxN : \E v \in Values :
    \E faulty \in {F \in SUBSET (0..(n - 1)) : Cardinality(F) <= f} :
        /\ nodes = NodesWithFaulty(n, faulty)
        /\ messages = <<>>
        /\ max_faulty = f
        /\ total_nodes = n
        /\ current_faulty = Cardinality(faulty)
        /\ current_round = 0
        /\ simulation_state = "ready"
        /\ sender_value = v
        /\ f_var = f
        /\ n_var = NText(n)
        /\ sender_value_var = v
        /\ last_call = [op |-> "setup_simulation", result |-> "done"]

NextOM == RunNextRound

SpecOM == InitOM /\ [][NextOM]_vars

-----------------------------------------------------------------------------
(* get_majority on its own *)

\* The lists of at most n entries, each Attack, Retreat or None.
ValueLists(n) ==
    UNION {[1..len -> Values \cup {None}] : len \in 0..n}

\* A call get_majority(values) about to run, in a program just constructed.
InitMajority ==
    /\ nodes = FreshNodes(4)
    /\ messages = <<>>
    /\ max_faulty = 1
    /\ total_nodes = 4
    /\ current_faulty = 0
    /\ current_round = 0
    /\ simulation_state = "ready"
    /\ sender_value = "Attack"
    /\ f_var = 1
    /\ n_var = NText(4)
    /\ sender_value_var = "Attack"
    /\ \E values \in ValueLists(MaxLen) :
          last_call = [op |-> "get_majority", values |-> values,
                       result |-> "pending"]

\* The call returns.
GetMajorityCall ==
    /\ last_call.op = "get_majority"
    /\ last_call.result = "pending"
    /\ last_call' = [last_call EXCEPT !.result = GetMajority(last_call.values)]
    /\ UNCHANGED <<nodes, messages, max_faulty, total_nodes, current_faulty,
                   current_round, simulation_state, sender_value, f_var,
                   n_var, sender_value_var>>

NextMajority == GetMajorityCall

SpecMajority == InitMajority /\ [][NextMajority]_vars

-----------------------------------------------------------------------------
(* Vocabulary of the properties *)

Finished == simulation_state = "finished"

Lieutenants == DOMAIN nodes \ {sender_id}

Honest(i) == ~nodes[i].is_faulty

FaultyCount == Cardinality({i \in DOMAIN nodes : nodes[i].is_faulty})

\* A configuration of n >= 3f+1 nodes, at most f of them faulty.
ValidConfiguration ==
    /\ sender_id \in DOMAIN nodes
    /\ Cardinality(DOMAIN nodes) >= 3 * max_faulty + 1
    /\ FaultyCount <= max_faulty

NoDuplicates(path) ==
    \A a, b \in 1..Len(path) : a # b => path[a] # path[b]

\* The path starts with the commander, repeats no id and leaves out the
\* recipient.
PathWellFormed(path, recipient) ==
    /\ Len(path) >= 1
    /\ path[1] = sender_id
    /\ NoDuplicates(path)
    /\ ~InSeq(recipient, path)

Keys(log) == {log[e][1] : e \in 1..Len(log)}

-----------------------------------------------------------------------------
(* Properties *)

\* C1 (Validity, as claimed): with a non-faulty commander, in every
\* Finished state every non-faulty node of the list, the commander
\* included, has final_decision equal to the sender value.
C1_ValidityAllNodes ==
    (Finished /\ ValidConfiguration /\ Honest(sender_id)) =>
        \A i \in DOMAIN nodes :
            Honest(i) => nodes[i].final_decision = sender_value

\* C2 (Agreement, as claimed): in every Finished state of a valid
\* configuration any two non-faulty nodes, the commander included, have the
\* same final_decision.
C2_AgreementAllNodes ==
    (Finished /\ ValidConfiguration) =>
        \A i, j \in DOMAIN nodes :
            (Honest(i) /\ Honest(j)) =>
                nodes[i].final_decision = nodes[j].final_decision

\* C3 (Lieutenant validity): with n >= 3f+1, a non-faulty commander 0 and at
\* most f faulty lieutenants, after f+1 rounds every non-faulty lieutenant
\* has final_decision equal to the sender value.
C3_LieutenantValidity ==
    (/\ Finished
     /\ current_round = max_faulty + 1
     /\ ValidConfiguration
     /\ Honest(sender_id)) =>
        \A i \in Lieutenants :
            Honest(i) => nodes[i].final_decision = sender_value

\* C3 witness: n = 4, f = 1, the commander sent Attack, lieutenant 1 is
\* faulty and lieutenants 2 and 3 decided Attack after two rounds.
C3_Witness ==
    /\ Finished
    /\ current_round = 2
    /\ max_faulty = 1
    /\ DOMAIN nodes = 0..3
    /\ sender_value = "Attack"
    /\ nodes[1].is_faulty
    /\ DictGet(nodes[3].message_log, PathStr(<<0, 1>>)) = "Retreat"
    /\ nodes[2].final_decision = "Attack"
    /\ nodes[3].final_decision = "Attack"

\* C4 (Agreement under a faulty commander): when the commander's faulty flag
\* is set and at most f nodes in all are faulty (n >= 3f+1), all non-faulty
\* lieutenants have the same final_decision after round f+1.
C4_AgreementFaultyCommander ==
    (/\ Finished
     /\ current_round = max_faulty + 1
     /\ ValidConfiguration
     /\ nodes[sender_id].is_faulty) =>
        \A i, j \in Lieutenants :
            (Honest(i) /\ Honest(j)) =>
                nodes[i].final_decision = nodes[j].final_decision

\* C4 witness: n = 7, f = 2, the commander and lieutenant 3 are faulty, even
\* lieutenants were told Attack and odd ones Retreat, and the run is over
\* with lieutenants 1 and 2 decided.
C4_Witness ==
    /\ Finished
    /\ current_round = 3
    /\ max_faulty = 2
    /\ DOMAIN nodes = 0..6
    /\ nodes[sender_id].is_faulty
    /\ nodes[3].is_faulty
    /\ DictGet(nodes[1].message_log, PathStr(<<0>>)) = "Retreat"
    /\ DictGet(nodes[2].message_log, PathStr(<<0>>)) = "Attack"
    /\ nodes[1].final_decision \in Values
    /\ nodes[1].final_decision = nodes[2].final_decision

\* C5 (Round count): from Ready with current_round = 0 every advance adds
\* one round; the phase is Running after rounds 1..f and Finished exactly
\* when round f+1 is done; current_round never exceeds f+1 and changes only
\* by an advance or by a reset to 0.
C5_RoundCount ==
    /\ [](/\ simulation_state = "ready" => current_round = 0
          /\ simulation_state = "running" => current_round \in 1..max_faulty
          /\ simulation_state = "finished" => current_round = max_faulty + 1
          /\ current_round <= max_faulty + 1)
    /\ [][(RunNextRound /\ simulation_state \in {"ready", "running"}) =>
            /\ current_round' = current_round + 1
            /\ simulation_state' =
                 IF current_round' = max_faulty + 1 THEN "finished"
                 ELSE "running"]_vars
    /\ [][current_round' # current_round =>
            \/ RunNextRound /\ current_round' = current_round + 1
            \/ current_round' = 0 /\ simulation_state' = "ready"]_vars

\* C5 witness: with f = 2 the third advance has just finished the run.
C5_Witness ==
    /\ Finished
    /\ max_faulty = 2
    /\ current_round = 3
    /\ last_call = [op |-> "run_next_round", result |-> "done"]

\* C6 (Path invariant): every message delivered in round r carries a path of
\* length r that starts with the commander id, repeats no id and leaves out
\* the recipient; so does every key of every message log, and a key added
\* in round r has length r.
C6_PathInvariant ==
    /\ [](/\ \A m \in 1..Len(messages) :
                /\ Len(messages[m].path) = current_round
                /\ PathWellFormed(messages[m].path,
                                  nodes[messages[m].to_node].id)
          /\ \A i \in DOMAIN nodes : \A key \in Keys(nodes[i].message_log) :
                /\ Len(ParsePath(key)) \in 1..current_round
                /\ PathStr(ParsePath(key)) = key
                /\ PathWellFormed(ParsePath(key), nodes[i].id))
    /\ [][RunNextRound =>
            \A i \in DOMAIN nodes' \cap DOMAIN nodes :
                \A key \in Keys(nodes'[i].message_log)
                             \ Keys(nodes[i].message_log) :
                    Len(ParsePath(key)) = current_round']_vars

\* C6 witness: round 3 of an f = 2 run delivered node 1 the path 0-2-3.
C6_Witness ==
    /\ current_round = 3
    /\ 1 \in DOMAIN nodes
    /\ DictHas(nodes[1].message_log, PathStr(<<0, 2, 3>>))
    /\ \E m \in 1..Len(messages) :
          messages[m].to_node = 1 /\ messages[m].path = <<0, 2, 3>>

\* The step is a setup_simulation that the validation rejects.
RejectedSetupStep ==
    \E text \in NTexts, v \in Values :
        SetupSimulation(text, v) /\ Rejected(text, f_var)

C8_NoAdvanceAfterRejectedSetup ==
    [][(RunNextRound /\ DOMAIN nodes = {}) =>
        /\ UNCHANGED <<current_round, messages, simulation_state>>
        /\ last_call'.result # "IndexError"]_vars

\* C9 (Advance when Finished): run_next_round in the Finished phase changes
\* neither the round counter, the phase, the message list nor any node
\* (logs and final decisions).
C9_AdvanceWhenFinishedChangesNothing ==
    [][(RunNextRound /\ Finished) =>
        UNCHANGED <<nodes, messages, current_round, simulation_state,
                    current_faulty, max_faulty, total_nodes, sender_value,
                    f_var, n_var, sender_value_var>>]_vars

\* C9 witness: run_next_round has just returned from a Finished simulation
\* whose nodes hold their decisions.
C9_Witness ==
    /\ Finished
    /\ last_call = [op |-> "run_next_round", result |-> "returned"]
    /\ sender_id \in DOMAIN nodes
    /\ \A i \in Lieutenants : Honest(i) => nodes[i].final_decision \in Values

\* C10 (Acceptance bound): whenever participants exist their number is at
\* least 3f+1 for the configured f, and a setup with n < 3f+1 leaves no
\* participants.
C10_AcceptanceBound ==
    /\ [](DOMAIN nodes # {} =>
            /\ Cardinality(DOMAIN nodes) >= 3 * max_faulty + 1
            /\ Cardinality(DOMAIN nodes) = total_nodes)
    /\ [][\A text \in NTexts, v \in Values :
            (/\ SetupSimulation(text, v)
             /\ text.numeric
             /\ text.value < 3 * f_var + 1) => DOMAIN nodes' = {}]_vars

\* C10 witness: f = 1 and the setup with N = 3 was rejected, leaving no
\* participants.
C10_Witness ==
    /\ last_call = [op |-> "setup_simulation", result |-> "rejected"]
    /\ n_var = NText(3)
    /\ max_faulty = 1
    /\ DOMAIN nodes = {}

\* C11 (Faulty quota): in every reachable state the number of nodes with
\* is_faulty set is at most max_faulty (and is what current_faulty counts);
\* a click on a non-faulty node when max_faulty flags are already set
\* leaves every flag unchanged.
C11_FaultyQuota ==
    /\ [](/\ FaultyCount <= max_faulty
          /\ DOMAIN nodes # {} => FaultyCount = current_faulty)
    /\ [][\A hit \in DOMAIN nodes :
            (/\ OnCanvasClick(hit)
             /\ ~nodes[hit].is_faulty
             /\ FaultyCount >= max_faulty) =>
                 /\ DOMAIN nodes' = DOMAIN nodes
                 /\ \A i \in DOMAIN nodes :
                        nodes'[i].is_faulty = nodes[i].is_faulty]_vars

\* C11 witness: f = 2, nodes 1 and 2 are faulty and a click on the
\* non-faulty lieutenant 3 has just been handled without setting its flag.
C11_Witness ==
    /\ simulation_state = "ready"
    /\ max_faulty = 2
    /\ DOMAIN nodes = 0..6
    /\ {i \in DOMAIN nodes : nodes[i].is_faulty} = {1, 2}
    /\ current_faulty = 2
    /\ last_call = [op |-> "on_canvas_click", result |-> "done"]

\* C12 (as claimed): in every reachable state whose phase is ready, running
\* or finished exactly one node has is_sender set and that node is not
\* faulty; a click on the sender changes no node.
C12_ExactlyOneHonestSender ==
    /\ [](simulation_state \in {"ready", "running", "finished"} =>
            /\ Cardinality({i \in DOMAIN nodes : nodes[i].is_sender}) = 1
            /\ \A i \in DOMAIN nodes :
                   nodes[i].is_sender => ~nodes[i].is_faulty)
    /\ [][\A hit \in DOMAIN nodes :
            (OnCanvasClick(hit) /\ nodes[hit].is_sender) =>
                UNCHANGED <<nodes, current_faulty>>]_vars

\* The set of ids whose faulty flag is set.
FaultySet == {i \in DOMAIN nodes : nodes[i].is_faulty}

\* The step is a reset: setup_simulation runs, from the button or from the
\* F combobox.
SetupStep ==
    \/ \E text \in NTexts, v \in Values : SetupSimulation(text, v)
    \/ \E f \in FValues : OnFChanged(f)

\* C13 (Toggle only when ready): a click changes an is_faulty flag only in
\* phase ready; in running or finished it leaves every node and
\* current_faulty unchanged, and no step from the first advance on, other
\* than a reset, changes the set of faulty nodes or current_faulty.
C13_ToggleOnlyWhenReady ==
    /\ [][\A hit \in DOMAIN nodes \cup {NoHit} :
            (OnCanvasClick(hit) /\ simulation_state # "ready") =>
                UNCHANGED <<nodes, current_faulty>>]_vars
    /\ [][(FaultySet' # FaultySet /\ ~SetupStep) =>
            /\ simulation_state = "ready"
            /\ \E hit \in DOMAIN nodes : OnCanvasClick(hit)]_vars
    /\ [][((RunNextRound \/ simulation_state \in {"running", "finished"})
            /\ ~SetupStep) =>
                /\ FaultySet' = FaultySet
                /\ current_faulty' = current_faulty]_vars

\* C13 witness: the rounds are running with node 1 faulty, and a click has
\* just been ignored.
C13_Witness ==
    /\ simulation_state = "running"
    /\ current_round = 1
    /\ FaultySet = {1}
    /\ current_faulty = 1
    /\ last_call = [op |-> "on_canvas_click", result |-> "returned"]

\* C14 (get_majority): the result is Attack exactly when the Attack entries
\* outnumber all the other entries of the list together, None entries
\* included (more than half the length), and Retreat otherwise: so for the
\* empty list and for ties; [] gives Retreat, [Attack, Attack, Retreat]
\* gives Attack and [Attack, Retreat] gives Retreat.
C14_GetMajority ==
    (last_call.op = "get_majority" /\ last_call.result # "pending") =>
        LET values == last_call.values
            attacks == Count(values, "Attack")
            others == Count(values, "Retreat") + Count(values, None)
        IN  /\ last_call.result \in Values
            /\ last_call.result = "Attack" <=> attacks > others
            /\ attacks = others => last_call.result = "Retreat"
            /\ values = <<>> => last_call.result = "Retreat"
            /\ values = <<"Attack", "Attack", "Retreat">> =>
                   last_call.result = "Attack"
            /\ values = <<"Attack", "Retreat">> =>
                   last_call.result = "Retreat"

\* C14 witness: two Attack entries against two None entries are a tie and
\* get_majority returned Retreat.
C14_Witness ==
    /\ last_call.op = "get_majority"
    /\ last_call.values = <<"Attack", None, "Attack", None>>
    /\ last_call.result = "Retreat"

\* C15 (Decisions are values): in every Finished state every non-faulty
\* node, the commander included, has a final_decision that is Attack or
\* Retreat, never None, whatever configuration was accepted.
C15_DecisionIsAValue ==
    Finished =>
        \A i \in DOMAIN nodes :
            Honest(i) => nodes[i].final_decision \in Values

\* C15 witness: an f = 2 run of 7 nodes is over with node 3 faulty; the
\* commander, whose log is empty, decided Retreat and lieutenant 1 decided
\* the sender value Attack.
C15_Witness ==
    /\ Finished
    /\ max_faulty = 2
    /\ DOMAIN nodes = 0..6
    /\ FaultySet = {3}
    /\ sender_value = "Attack"
    /\ nodes[sender_id].message_log = <<>>
    /\ nodes[sender_id].final_decision = "Retreat"
    /\ nodes[1].final_decision = "Attack"

\* C16 (When decisions exist): a node with a final_decision set is
\* non-faulty, and then the phase is finished and current_round is
\* max_faulty + 1; a faulty node never has one; a decision once set stays
\* the same in every step that is not a reset.
C16_DecisionsOnlyWhenFinished ==
    /\ [](\A i \in DOMAIN nodes :
            /\ nodes[i].final_decision # None =>
                  /\ Finished
                  /\ current_round = max_faulty + 1
                  /\ ~nodes[i].is_faulty
            /\ nodes[i].is_faulty => nodes[i].final_decision = None)
    /\ [][~SetupStep =>
            \A i \in DOMAIN nodes :
                nodes[i].final_decision # None =>
                    /\ i \in DOMAIN nodes'
                    /\ nodes'[i].final_decision = nodes[i].final_decision]_vars

\* C16 witness: an f = 1 run of 4 nodes is over; the faulty node 1 has no
\* decision, the non-faulty node 2 has one, and it outlasted a click.
C16_Witness ==
    /\ Finished
    /\ current_round = 2
    /\ max_faulty = 1
    /\ DOMAIN nodes = 0..3
    /\ FaultySet = {1}
    /\ nodes[1].final_decision = None
    /\ nodes[2].final_decision \in Values
    /\ last_call = [op |-> "on_canvas_click", result |-> "returned"]

\* C17 (as claimed): when the decisions are taken, every key that
\* resolve_decision looks up in the log of a non-faulty node, the key of
\* the initial path [sender_id] and those of the child paths it recurses
\* into, is present in that log (the logs of a Finished state are those the
\* decisions were taken from).
C17_EveryReadPathIsLogged ==
    Finished =>
        \A i \in DOMAIN nodes :
            Honest(i) =>
                LogReads(nodes, i, <<sender_id>>, max_faulty)
                    \subseteq Keys(nodes[i].message_log)

\* The same for the lieutenants alone, which holds: round 1 logs the path
\* of the commander in every lieutenant, and a child path is read only if
\* it is a key.
LieutenantReadsAreLogged ==
    Finished =>
        \A i \in Lieutenants :
            Honest(i) =>
                LogReads(nodes, i, <<sender_id>>, max_faulty)
                    \subseteq Keys(nodes[i].message_log)

\* The messages of a list as triples <<recipient, path, value>>.
MessageSet(msgs) ==
    {<<msgs[m].to_node, msgs[m].path, msgs[m].value>> : m \in 1..Len(msgs)}

\* The log entries of all nodes as triples <<owner, path, value>>.
LogEntries(ns) ==
    UNION {{<<q, ParsePath(ns[q].message_log[e][1]), ns[q].message_log[e][2]>> :
                e \in 1..Len(ns[q].message_log)} : q \in DOMAIN ns}

\* What round 1 has to deliver: the path [commander] to every other node.
ExpectedRound1(ns, value) ==
    {<<q, <<sender_id>>,
       IF ns[sender_id].is_faulty
       THEN (IF q % 2 = 0 THEN "Attack" ELSE "Retreat") ELSE value>> :
        q \in DOMAIN ns \ {sender_id}}

\* What round r >= 2 has to deliver, from the logs ns of the end of round
\* r - 1.
ExpectedRelay(ns, r) ==
    UNION {UNION {{<<q, Append(entry[2], p),
                     IF ns[p].is_faulty
                     THEN (IF q % 2 = 0 THEN "Attack" ELSE "Retreat")
                     ELSE entry[3]>> :
                        q \in {q \in DOMAIN ns : q # p /\ ~InSeq(q, entry[2])}} :
                    entry \in {e \in LogEntries(ns) :
                                  e[1] = p /\ Len(e[2]) = r - 1}} :
            p \in DOMAIN ns}

\* C18 (Relay exactness, round atomicity): an advance into round r with
\* 2 <= r <= f+1 delivers exactly the entries <<q, path + [p], value p
\* transmits to q>> for the entries <<path, value>> of length r - 1 that
\* p's log held when round r - 1 ended, q # p, q not in path; round 1
\* delivers exactly the path [commander] to every other node; each entry
\* is carried by one message and the logs gain just these entries.
C18_RelayExactness ==
    [][(RunNextRound /\ current_round' = current_round + 1
                     /\ current_round' <= max_faulty + 1) =>
        LET expected == IF current_round' = 1
                        THEN IF sender_id \in DOMAIN nodes
                             THEN ExpectedRound1(nodes, sender_value) ELSE {}
                        ELSE ExpectedRelay(nodes, current_round')
        IN  /\ MessageSet(messages') = expected
            /\ Len(messages') = Cardinality(expected)
            /\ LogEntries(nodes') \ LogEntries(nodes) = expected
            /\ LogEntries(nodes) \subseteq LogEntries(nodes')]_vars

\* C18 witness: round 3 of an f = 2 run of 7 nodes with node 3 faulty has
\* just relayed the round-2 entries; node 1 logged 0-2-3 as Retreat, what
\* the faulty node 3 sends to odd ids, and 0-3-2 as node 2 received it.
C18_Witness ==
    /\ current_round = 3
    /\ max_faulty = 2
    /\ DOMAIN nodes = 0..6
    /\ FaultySet = {3}
    /\ sender_value = "Attack"
    /\ last_call = [op |-> "run_next_round", result |-> "done"]
    /\ <<1, <<0, 2, 3>>, "Retreat">> \in MessageSet(messages)
    /\ <<1, <<0, 3, 2>>, "Attack">> \in LogEntries(nodes)
    /\ <<2, <<0, 3>>, "Attack">> \in LogEntries(nodes)

\* path without its last id
Front(path) == SubSeq(path, 1, Len(path) - 1)

\* C19 (Fault injection, seen in the logs): for every log entry of a node q
\* whose path ends with p: if p is not faulty the value is the one p's own
\* log holds for the path before p (the sender value when p is the
\* commander and nothing comes before it); if p is faulty the value is
\* Attack when q's id is even and Retreat when it is odd.
C19_LoggedValues ==
    \A q \in DOMAIN nodes : \A e \in 1..Len(nodes[q].message_log) :
        LET path == ParsePath(nodes[q].message_log[e][1])
            v == nodes[q].message_log[e][2]
            p == path[Len(path)]
        IN  /\ Len(path) >= 1
            /\ p \in DOMAIN nodes
            /\ IF nodes[p].is_faulty
               THEN v = (IF nodes[q].id % 2 = 0 THEN "Attack" ELSE "Retreat")
               ELSE IF Len(path) = 1
               THEN p = sender_id /\ v = sender_value
               ELSE /\ DictHas(nodes[p].message_log, PathStr(Front(path)))
                    /\ DictGet(nodes[p].message_log, PathStr(Front(path))) = v

\* C19 witness: the sender value is Retreat and node 3 is faulty; node 2
\* logged 0-3 as Attack (its id is even), node 1 logged 0-2-3 as Retreat
\* (its id is odd) and 0-3-2 as Attack, node 2 relaying what it holds.
C19_Witness ==
    /\ max_faulty = 2
    /\ DOMAIN nodes = 0..6
    /\ FaultySet = {3}
    /\ sender_value = "Retreat"
    /\ <<2, <<0, 3>>, "Attack">> \in LogEntries(nodes)
    /\ <<1, <<0, 2, 3>>, "Retreat">> \in LogEntries(nodes)
    /\ <<1, <<0, 3, 2>>, "Attack">> \in LogEntries(nodes)
    /\ <<1, <<0>>, "Retreat">> \in LogEntries(nodes)

\* The step delivers the messages of a round.
DeliveryStep == RunNextRound /\ current_round' = current_round + 1

\* C20 (Logs are append-only between resets): in every step that is not a
\* reset each node keeps its log entries, keys and values, in their places,
\* new ones coming after them; a delivery writes no key its recipient
\* already holds; and the logs change only in the delivery of
\* run_next_round.
C20_LogsAppendOnly ==
    /\ [][~SetupStep =>
            \A i \in DOMAIN nodes :
                /\ i \in DOMAIN nodes'
                /\ Len(nodes'[i].message_log) >= Len(nodes[i].message_log)
                /\ SubSeq(nodes'[i].message_log, 1, Len(nodes[i].message_log))
                     = nodes[i].message_log]_vars
    /\ [][DeliveryStep =>
            \A m \in 1..Len(messages') :
                ~DictHas(nodes[messages'[m].to_node].message_log,
                         PathStr(messages'[m].path))]_vars
    /\ [][(\E i \in DOMAIN nodes \cap DOMAIN nodes' :
              nodes'[i].message_log # nodes[i].message_log) =>
            DeliveryStep \/ SetupStep]_vars

\* C20 witness: round 2 of the 4-node run has just been delivered; node 1
\* still holds the round-1 entry 0 first, and the entries 0-2 and 0-3 of
\* round 2 after it.
C20_Witness ==
    /\ current_round = 2
    /\ DOMAIN nodes = 0..3
    /\ last_call = [op |-> "run_next_round", result |-> "done"]
    /\ Len(nodes[1].message_log) = 3
    /\ nodes[1].message_log[1] = <<PathStr(<<0>>), sender_value>>
    /\ nodes[1].message_log[2][1] = PathStr(<<0, 2>>)
    /\ nodes[1].message_log[3][1] = PathStr(<<0, 3>>)

====
